---- MODULE Spec2Model ----
(***************************************************************************)
(* Model of the filament dryer controller of src/mmu_dryer.py (class       *)
(* FilamentDryer) together with the three host collaborators it drives:   *)
(* the heater (get_status/set_temp), the reactor (monotonic, register_-   *)
(* timer, unregister_timer, timer dispatch) and the idle_timeout object.  *)
(*                                                                         *)
(* Time is counted in whole seconds of the reactor's monotonic clock.     *)
(* Temperatures are whole degrees.  A DURATION parameter is a number of   *)
(* hours, written as a fraction <<numerator, denominator>>.               *)
(* Every gcode command handler and every timer callback runs to           *)
(* completion (the reactor is single threaded and cooperative), so each   *)
(* is one action.                                                          *)
(***************************************************************************)
EXTENDS Integers, Sequences, FiniteSets, TLC

VARIABLES
    is_drying,        \* self.is_drying
    target_temp,      \* self.target_temp
    duration,         \* self.duration (seconds)
    start_time,       \* self.start_time
    end_time,         \* self.end_time
    timer_handler,    \* self.timer_handler (None or a reactor timer id)
    original_target,  \* self.original_target
    heater,           \* self.heater: the cached heater object, or None
    heater_target,    \* the heater's own target temperature
    idle_state,       \* the idle_timeout object's state
    timers,           \* the reactor's registered timers: records [id, waketime]
    now,              \* reactor.monotonic()
    m118_log,         \* eventtimes at which a progress message (M118) was run
    response,         \* what the step's command or callback returned / raised / printed
    config,           \* the host's configuration: is the heater there, is idle_timeout there
    pre_target,       \* history: the heater target just before the last successful start
    ext_write         \* history: something else wrote the heater since the last successful start

vars == <<is_drying, target_temp, duration, start_time, end_time, timer_handler,
          original_target, heater, heater_target, idle_state, timers, now,
          m118_log, response, config, pre_target, ext_write>>

\* ------------------------------------------------------------------ bounds

\* The clock stops at MaxTime.
MaxTime == 306
\* START_FILAMENT_DRYING commands arrive no later than MaxStart.
MaxStart == 1
\* The reactor runs a due timer at most MaxLate seconds after its waketime.
MaxLate == 1
\* The clock stops at MaxCallTime where _timer_callback is also called directly.
MaxCallTime == 8

\* --------------------------------------------------------------- constants

\* Python's None; an optional value v is <<v>>
None == <<>>
Some(v) == <<v>>
\* no exception raised
NoExc == "NoExc"
\* reactor.NEVER
NEVER == 999999999
\* `eventtime + 1.0`, `self.reactor.monotonic() + 1.0`
TickInterval == 1
\* `% 300`
ProgressPeriod == 300
\* `duration * 3600`
SecondsPerHour == 3600
\* The heater's configured min_temp / max_temp: set_temp refuses a non-zero
\* target outside them.
HeaterMinTemp == 0
HeaterMaxTemp == 60
HeaterObj == "heater"

\* hours (a fraction) * 3600, in seconds
HoursToSeconds(h) ==
    IF h[1] >= 0 THEN (h[1] * SecondsPerHour) \div h[2]
    ELSE -(((-h[1]) * SecondsPerHour) \div h[2])

\* str.lower() on the preset names the commands are given
Lower(s) ==
    CASE s = "PLA" -> "pla"
      [] s = "Pla" -> "pla"
      [] OTHER -> s

\* The configuration: `presets: PLA`, preset_PLA_temp, preset_PLA_duration (hours).
PresetConfig ==
    [PLA |-> [temp |-> 50, hours |-> <<1, 600>>]]

\* Fault of the preset table: the duration is kept in hours (whole hours here).
Mut_presets_in_hours ==
    [n \in {Lower(p) : p \in DOMAIN PresetConfig} |->
        LET p == CHOOSE q \in DOMAIN PresetConfig : Lower(q) = n
        IN [temp |-> PresetConfig[p].temp,
            duration |-> PresetConfig[p].hours[1] \div PresetConfig[p].hours[2]]]

\* self.presets as __init__ builds it: lower-cased name -> temp, seconds
presets ==
    [n \in {Lower(p) : p \in DOMAIN PresetConfig} |->
        LET p == CHOOSE q \in DOMAIN PresetConfig : Lower(q) = n
        IN [temp |-> PresetConfig[p].temp,
            duration |-> HoursToSeconds(PresetConfig[p].hours)]]

\* ------------------------------------------------------------- the world
\* The controller's fields and the collaborators' state a handler reads and
\* writes, as one record; exc is the exception a handler has raised (None:
\* none), ret its return value, msgs what it printed, m118 the progress its
\* M118 message reports.

World ==
    [is_drying |-> is_drying, target_temp |-> target_temp, duration |-> duration,
     start_time |-> start_time, end_time |-> end_time,
     timer_handler |-> timer_handler, original_target |-> original_target,
     heater |-> heater, heater_target |-> heater_target, idle_state |-> idle_state,
     timers |-> timers, m118_log |-> m118_log,
     exc |-> NoExc, ret |-> None, msgs |-> <<>>, m118 |-> None]

Raise(w, e) == [w EXCEPT !.exc = e]
Respond(w, m) == [w EXCEPT !.msgs = Append(@, m)]

\* ---------------------------------------------------------- collaborators

\* heater.set_temp(degrees): refuses a non-zero target outside the limits
HeaterSetTemp(w, degrees) ==
    IF degrees # 0 /\ (degrees < HeaterMinTemp \/ degrees > HeaterMaxTemp)
    THEN Raise(w, "HeaterError")
    ELSE [w EXCEPT !.heater_target = degrees]

\* idle_timeout = printer.lookup_object('idle_timeout', None); set_state("Printing")
IdleSetPrinting(w) ==
    IF config.idle_timeout THEN [w EXCEPT !.idle_state = "Printing"] ELSE w

\* reactor.register_timer(callback, waketime): a new timer object
FreshTimer(w) ==
    CHOOSE i \in 1..(Cardinality(w.timers) + 1) : \A t \in w.timers : t.id # i

RegisterTimer(w, waketime) ==
    LET h == FreshTimer(w)
    IN [w EXCEPT !.timers = @ \cup {[id |-> h, waketime |-> waketime]},
                 !.ret = Some(h)]

\* reactor.unregister_timer(handle)
UnregisterTimer(w, h) ==
    [w EXCEPT !.timers = {t \in @ : t.id # h}]

\* ------------------------------------------------------------ FilamentDryer

_get_heater(w) ==
    IF w.heater = None
    THEN IF config.heater_found
         THEN [w EXCEPT !.heater = Some(HeaterObj)]
         ELSE Raise(w, "ConfigurationError")
    ELSE w

\* Faults of _stop_timer: the handle is kept after unregistering; the handle
\* is dropped without unregistering the timer.
Mut_stop_timer_keeps_handle(w) ==
    IF w.timer_handler # None
    THEN UnregisterTimer(w, w.timer_handler[1])
    ELSE w

Mut_stop_timer_no_unregister(w) ==
    IF w.timer_handler # None
    THEN [w EXCEPT !.timer_handler = None]
    ELSE w

_stop_timer(w) ==
    IF w.timer_handler # None
    THEN [UnregisterTimer(w, w.timer_handler[1]) EXCEPT !.timer_handler = None]
    ELSE w

\* Fault of the restore: the heater is switched off instead of restored.
Mut_RestoreTarget_zero(w) ==
    LET g == _get_heater(w)
    IN IF g.exc # NoExc THEN g ELSE HeaterSetTemp(g, 0)

\* heater = self._get_heater(); heater.set_temp(self.original_target)
RestoreTarget(w) ==
    LET g == _get_heater(w)
    IN IF g.exc # NoExc THEN g ELSE HeaterSetTemp(g, g.original_target)

\* Fault of the reset: target_temp is left at the cycle's value.
Mut_ClearCycle_keeps_target(w) ==
    [w EXCEPT !.is_drying = FALSE, !.duration = 0,
              !.start_time = 0, !.end_time = 0]

\* is_drying = False; target_temp = duration = start_time = end_time = 0
ClearCycle(w) ==
    [w EXCEPT !.is_drying = FALSE, !.target_temp = 0, !.duration = 0,
              !.start_time = 0, !.end_time = 0]

\* Fault of the cleanup: the timer is left registered.
Mut_StopCycle_keeps_timer(w) ==
    LET w2 == RestoreTarget(w)
    IN IF w2.exc # NoExc THEN w2
       ELSE Respond(ClearCycle(w2), "stopped")

\* _stop_drying past its `if not self.is_drying: return`
StopCycle(w) ==
    LET w1 == _stop_timer(w)
        w2 == RestoreTarget(w1)
    IN IF w2.exc # NoExc THEN w2
       ELSE Respond(ClearCycle(w2), "stopped")

_stop_drying(w) ==
    IF ~w.is_drying THEN w ELSE StopCycle(w)

\* Fault of the deadline test: remaining < 0.
Mut_CycleOver_strict(w, eventtime) ==
    w.end_time - eventtime < 0

\* Fault of the completion test: only a remaining time of exactly 0 ends the
\* cycle.
Mut_CycleOver_exact(w, eventtime) ==
    w.end_time - eventtime = 0

\* remaining = self.end_time - eventtime; remaining <= 0
CycleOver(w, eventtime) ==
    w.end_time - eventtime <= 0

\* int(eventtime - self.start_time) % 300 == 0 (times are whole seconds)
ProgressDue(w, eventtime) ==
    (eventtime - w.start_time) % ProgressPeriod = 0

\* The progress message: progress = elapsed / self.duration * 100 (a fraction
\* <<numerator, denominator>>), the heater's temperature, M118
ReportProgress(w, eventtime) ==
    IF w.duration = 0 THEN Raise(w, "ZeroDivisionError")
    ELSE LET g == _get_heater(w)
         IN IF g.exc # NoExc THEN g
            ELSE LET progress == <<(eventtime - w.start_time) * 100, w.duration>>
                 IN Respond([g EXCEPT !.m118_log = @ \cup {eventtime},
                                      !.m118 = Some(progress)],
                            "progress")

\* Fault of the callback: it asks to be run again at the same time.
Mut_NextWake_same_time(eventtime) ==
    eventtime

\* return eventtime + 1.0
NextWake(eventtime) ==
    eventtime + TickInterval

_timer_callback(w, eventtime) ==
    IF ~w.is_drying THEN [w EXCEPT !.ret = NEVER]
    ELSE IF CycleOver(w, eventtime)
         THEN LET w1 == _stop_drying(Respond(w, "complete"))
              IN IF w1.exc # NoExc THEN w1 ELSE [w1 EXCEPT !.ret = NEVER]
         ELSE LET w1 == IF ProgressDue(w, eventtime)
                        THEN ReportProgress(w, eventtime)
                        ELSE w
              IN IF w1.exc # NoExc THEN w1
                 ELSE [w1 EXCEPT !.ret = NextWake(eventtime)]

\* self.original_target = heater.get_status(...)['target']
CaptureOriginal(w) ==
    [w EXCEPT !.original_target = w.heater_target]

\* Fault of the start: the heater is never given the drying target.
Mut_SetDryingTarget_skipped(w, temp) ==
    w

\* heater.set_temp(temp)
SetDryingTarget(w, temp) ==
    HeaterSetTemp(w, temp)

\* Fault of the start: the callback is registered to run at once.
Mut_ArmTimer_immediate(w) ==
    LET r == RegisterTimer(w, now)
    IN [r EXCEPT !.timer_handler = r.ret, !.ret = None]

\* self.timer_handler = reactor.register_timer(callback, monotonic() + 1.0)
ArmTimer(w) ==
    LET r == RegisterTimer(w, now + TickInterval)
    IN [r EXCEPT !.timer_handler = r.ret, !.ret = None]

\* _start_drying past its `if self.is_drying: raise`
StartCycle(w, temp, dur) ==
    LET w1 == _get_heater(w)
    IN IF w1.exc # NoExc THEN w1
       ELSE
         LET w2 == CaptureOriginal(w1)
             w3 == IdleSetPrinting(w2)
             w4 == SetDryingTarget(w3, temp)
         IN IF w4.exc # NoExc THEN w4
            ELSE
              LET w5 == [w4 EXCEPT !.target_temp = temp, !.duration = dur,
                                   !.start_time = now, !.end_time = now + dur,
                                   !.is_drying = TRUE]
              IN Respond(ArmTimer(w5), "started")

\* Fault of _start_drying: no `if self.is_drying` check.
Mut_start_drying_unguarded(w, temp, dur) ==
    StartCycle(w, temp, dur)

_start_drying(w, temp, dur) ==
    IF w.is_drying THEN Raise(w, "AlreadyActive")
    ELSE StartCycle(w, temp, dur)

\* Fault of the start command: a name that is not configured falls back to
\* the TEMP and DURATION parameters.
Mut_cmd_START_unknown_falls_back(w, gcmd) ==
    IF /\ gcmd.PRESET # None
       /\ gcmd.PRESET # Some("")
       /\ Lower(gcmd.PRESET[1]) \in DOMAIN presets
    THEN LET preset == Lower(gcmd.PRESET[1])
         IN _start_drying(w, presets[preset].temp, presets[preset].duration)
    ELSE IF gcmd.TEMP = None \/ gcmd.DURATION = None
         THEN Raise(w, "MissingParameters")
         ELSE _start_drying(w, gcmd.TEMP[1], HoursToSeconds(gcmd.DURATION[1]))

\* gcmd: [PRESET, TEMP, DURATION], each None when the parameter is absent
cmd_START_FILAMENT_DRYING(w, gcmd) ==
    IF gcmd.PRESET # None /\ gcmd.PRESET # Some("")
    THEN LET preset == Lower(gcmd.PRESET[1])
         IN IF preset \notin DOMAIN presets
            THEN Raise(w, "UnknownPreset")
            ELSE _start_drying(w, presets[preset].temp, presets[preset].duration)
    ELSE IF gcmd.TEMP = None \/ gcmd.DURATION = None
         THEN Raise(w, "MissingParameters")
         ELSE _start_drying(w, gcmd.TEMP[1], HoursToSeconds(gcmd.DURATION[1]))

\* Fault of the stop command: the cleanup runs whether or not a cycle is active.
Mut_cmd_STOP_unguarded(w) ==
    StopCycle(w)

cmd_STOP_FILAMENT_DRYING(w) ==
    IF ~w.is_drying THEN Respond(w, "no_cycle")
    ELSE _stop_drying(w)

\* Fault of the status query: it resolves the heater to report on it.
Mut_get_status_resolves_heater(w, eventtime) ==
    LET g == _get_heater(w)
    IN [g EXCEPT !.ret = [is_drying |-> g.is_drying, target_temp |-> g.target_temp]]

get_status(w, eventtime) ==
    LET status == [is_drying |-> w.is_drying, target_temp |-> w.target_temp]
    IN [w EXCEPT !.ret =
          IF w.is_drying
          THEN LET elapsed == eventtime - w.start_time
                   remaining == w.end_time - eventtime
               IN [is_drying |-> w.is_drying, target_temp |-> w.target_temp,
                   duration |-> w.duration, elapsed |-> elapsed,
                   remaining |-> remaining,
                   progress |-> IF w.duration > 0
                                THEN <<elapsed * 100, w.duration>>
                                ELSE <<0, 1>>]
          ELSE status]

cmd_DRYER_STATUS(w) ==
    IF ~w.is_drying THEN Respond(w, "idle")
    ELSE IF w.duration = 0 THEN Raise(w, "ZeroDivisionError")
         ELSE LET g == _get_heater(w)
              IN IF g.exc # NoExc THEN g ELSE Respond(g, "active")

\* ------------------------------------------------------------- the steps

NoArg == <<>>
NoResponse ==
    [op |-> "none", arg |-> NoArg, exc |-> NoExc, ret |-> None, msgs |-> <<>>,
     m118 |-> None]

\* The state a handler leaves behind.  An exception does not undo what the
\* handler did before raising it.
Commit(w, op, arg) ==
    /\ is_drying' = w.is_drying
    /\ target_temp' = w.target_temp
    /\ duration' = w.duration
    /\ start_time' = w.start_time
    /\ end_time' = w.end_time
    /\ timer_handler' = w.timer_handler
    /\ original_target' = w.original_target
    /\ heater' = w.heater
    /\ heater_target' = w.heater_target
    /\ idle_state' = w.idle_state
    /\ m118_log' = w.m118_log
    /\ response' = [op |-> op, arg |-> arg, exc |-> w.exc, ret |-> w.ret,
                    msgs |-> w.msgs, m118 |-> w.m118]

\* The parameters a START_FILAMENT_DRYING command is given.
PresetParams == {Some("PLA"), Some("pla"), Some("abs")}
TempParams == {None, Some(0), Some(50), Some(70)}
DurationParams == {None, Some(<<0, 1>>), Some(<<-1, 600>>), Some(<<1, 600>>),
                   Some(<<101, 1200>>)}
\* TEMP and DURATION alone; an empty PRESET; a PRESET alone or with TEMP and
\* DURATION beside it.
GcmdParams ==
    [PRESET : {None}, TEMP : TempParams, DURATION : DurationParams]
    \cup [PRESET : {Some("")}, TEMP : {None, Some(50)},
          DURATION : {None, Some(<<1, 600>>)}]
    \cup [PRESET : PresetParams, TEMP : {None, Some(70)},
          DURATION : {None, Some(<<101, 1200>>)}]

\* What else (another gcode command, a macro) sets the heater to.
ExtTargets == {30}

Init ==
    /\ is_drying = FALSE
    /\ target_temp = 0
    /\ duration = 0
    /\ start_time = 0
    /\ end_time = 0
    /\ timer_handler = None
    /\ original_target = 0
    /\ heater = None
    /\ heater_target = 0
    /\ idle_state = "Ready"
    /\ timers = {}
    /\ now = 0
    /\ m118_log = {}
    /\ response = NoResponse
    /\ config \in [heater_found : BOOLEAN, idle_timeout : BOOLEAN]
    /\ pre_target = 0
    /\ ext_write = FALSE

\* The gcode dispatcher runs START_FILAMENT_DRYING.
StartCmd ==
    \E gcmd \in GcmdParams :
        /\ now <= MaxStart
        /\ LET w == cmd_START_FILAMENT_DRYING(World, gcmd)
           IN /\ Commit(w, "start", gcmd)
              /\ timers' = w.timers
              /\ pre_target' = IF w.exc = NoExc THEN heater_target ELSE pre_target
              /\ ext_write' = IF w.exc = NoExc THEN FALSE ELSE ext_write
        /\ UNCHANGED <<now, config>>

\* The gcode dispatcher runs STOP_FILAMENT_DRYING.
StopCmd ==
    /\ LET w == cmd_STOP_FILAMENT_DRYING(World)
       IN Commit(w, "stop", NoArg) /\ timers' = w.timers
    /\ UNCHANGED <<now, config, pre_target, ext_write>>

\* The reactor runs a registered timer that is due and re-arms it at the time
\* the callback returns, if the callback left it registered.
TimerFire ==
    \E t \in timers :
        /\ now >= t.waketime
        /\ LET w == _timer_callback(World, now)
           IN /\ Commit(w, "tick", now)
              /\ timers' = {IF u.id = t.id THEN [u EXCEPT !.waketime = w.ret] ELSE u :
                            u \in w.timers}
        /\ UNCHANGED <<now, config, pre_target, ext_write>>

\* A status query (a macro, a dashboard) at the current time.
StatusQuery ==
    /\ LET w == get_status(World, now)
       IN Commit(w, "status", now) /\ timers' = w.timers
    /\ UNCHANGED <<now, config, pre_target, ext_write>>

\* The gcode dispatcher runs DRYER_STATUS.
DryerStatusCmd ==
    /\ LET w == cmd_DRYER_STATUS(World)
       IN Commit(w, "dryer_status", NoArg) /\ timers' = w.timers
    /\ UNCHANGED <<now, config, pre_target, ext_write>>

\* Something else sets the heater's target.
ExternalSetTemp ==
    \E v \in ExtTargets :
        /\ config.heater_found
        /\ heater_target' = v
        /\ ext_write' = TRUE
        /\ response' = NoResponse
        /\ UNCHANGED <<is_drying, target_temp, duration, start_time, end_time,
                       timer_handler, original_target, heater, idle_state, timers,
                       now, m118_log, config, pre_target>>

\* The clock advances by a second, up to `limit`, unless a timer has been due
\* for `late` seconds: the reactor runs a due timer within that time.
AdvanceWithin(late, limit) ==
    /\ now < limit
    /\ \A t \in timers : now < t.waketime + late
    /\ now' = now + 1
    /\ response' = NoResponse
    /\ UNCHANGED <<is_drying, target_temp, duration, start_time, end_time,
                   timer_handler, original_target, heater, heater_target,
                   idle_state, timers, m118_log, config, pre_target, ext_write>>

\* The clock advances; a due timer is run within MaxLate seconds.
Advance ==
    AdvanceWithin(MaxLate, MaxTime)

Next ==
    \/ StartCmd
    \/ StopCmd
    \/ TimerFire
    \/ StatusQuery
    \/ DryerStatusCmd
    \/ ExternalSetTemp
    \/ Advance

Spec == Init /\ [][Next]_vars

\* The reactor runs every due timer before the clock moves on: each tick runs
\* at the time the previous one asked for.
AdvanceOnTime ==
    AdvanceWithin(0, MaxTime)

NextOnTime ==
    \/ StartCmd
    \/ StopCmd
    \/ TimerFire
    \/ StatusQuery
    \/ DryerStatusCmd
    \/ ExternalSetTemp
    \/ AdvanceOnTime

\* The reactor keeps running: the clock advances and a due timer is run.
SpecOnTime ==
    Init /\ [][NextOnTime]_vars /\ WF_vars(TimerFire) /\ WF_vars(AdvanceOnTime)

\* _timer_callback called directly with the current time (a caller other than
\* the reactor's dispatch: its return value re-arms nothing).
TickCall ==
    /\ LET w == _timer_callback(World, now)
       IN Commit(w, "tick", now) /\ timers' = w.timers
    /\ UNCHANGED <<now, config, pre_target, ext_write>>

\* With direct calls the clock is followed up to MaxCallTime.
AdvanceCalls ==
    AdvanceWithin(MaxLate, MaxCallTime)

NextCalls ==
    \/ StartCmd
    \/ StopCmd
    \/ TimerFire
    \/ TickCall
    \/ StatusQuery
    \/ DryerStatusCmd
    \/ ExternalSetTemp
    \/ AdvanceCalls

SpecCalls == Init /\ [][NextCalls]_vars

\* ------------------------------------------------------------- the claims

CtrlFields == <<is_drying, target_temp, duration, start_time, end_time,
                timer_handler, original_target>>

Stopped(r) == \E i \in DOMAIN r.msgs : r.msgs[i] = "stopped"
Said(r, m) == \E i \in DOMAIN r.msgs : r.msgs[i] = m

\* C1: in every reachable state the timer handle is set if and only if
\* is_drying is true.
C1_HandleIffDrying ==
    (timer_handler # None) <=> is_drying

\* C1 witness: a cycle is running with its handle set, after a tick that did
\* not end it.
C1_Witness ==
    /\ is_drying
    /\ timer_handler # None
    /\ response.op = "tick"

\* C2: a start that reaches _start_drying while a cycle is active raises the
\* already-active error and changes no controller field, not the heater target
\* and not the reactor's timers.
C2_StartWhileDryingRejected ==
    [][(/\ response'.op = "start"
        /\ is_drying
        /\ response'.exc \notin {"UnknownPreset", "MissingParameters"})
       => (/\ response'.exc = "AlreadyActive"
           /\ UNCHANGED <<CtrlFields, heater_target, timers>>)]_vars

\* C2 witness: a start was refused as already active while a cycle runs.
C2_Witness ==
    /\ response.op = "start"
    /\ response.exc = "AlreadyActive"
    /\ is_drying
    /\ Cardinality(timers) = 1

\* C3: after a stop that ended a cycle during which nothing else wrote the
\* heater, the heater target is the one held before the start, is_drying is
\* false and target_temp, duration, start_time and end_time are zero.
C3_RoundTrip ==
    (response.op = "stop" /\ Stopped(response) /\ ~ext_write)
    => (/\ heater_target = pre_target
        /\ ~is_drying
        /\ target_temp = 0 /\ duration = 0 /\ start_time = 0 /\ end_time = 0)

\* C3 witness: a cycle started over a non-zero heater target was stopped and
\* the heater is back at that target.
C3_Witness ==
    /\ response.op = "stop"
    /\ Stopped(response)
    /\ ~ext_write
    /\ pre_target # 0
    /\ heater_target = pre_target

\* C4: a tick that runs with is_drying true at or after end_time returns
\* NEVER, leaves is_drying false and the handle cleared, and sets the heater
\* target to the value it had when the cycle started.
C4_TickCompletes ==
    [][(response'.op = "tick" /\ is_drying /\ now >= end_time)
       => (/\ response'.exc = NoExc
           /\ response'.ret = NEVER
           /\ ~is_drying'
           /\ timer_handler' = None
           /\ heater_target' = pre_target)]_vars

\* C4 witness: a tick found the deadline reached and completed a cycle whose
\* heater target had been non-zero before the start.
C4_Witness ==
    /\ response.op = "tick"
    /\ Said(response, "complete")
    /\ response.ret = NEVER
    /\ ~is_drying
    /\ pre_target # 0
    /\ heater_target = pre_target

\* C5: while a cycle is active and nothing else wrote the heater, the heater
\* target is target_temp; the controller changes the heater target only in a
\* successful start and in the cleanup of a stop or of a completing tick.
C5_HeaterHeld ==
    [][/\ (is_drying' /\ ~ext_write') => heater_target' = target_temp'
       /\ (heater_target' # heater_target /\ response'.op # "none")
          => \/ response'.op = "start" /\ response'.exc = NoExc
             \/ response'.op \in {"stop", "tick"} /\ Stopped(response')
       /\ (response'.op = "status" \/ (response'.op = "tick" /\ response'.ret # NEVER))
          => heater_target' = heater_target]_vars

\* C5 witness: a non-terminal tick of a cycle whose target differs from the
\* heater's earlier one, with the heater at the cycle's target.
C5_Witness ==
    /\ is_drying
    /\ ~ext_write
    /\ response.op = "tick"
    /\ target_temp = 50
    /\ pre_target # target_temp
    /\ heater_target = target_temp

\* C6: a start either succeeds completely (is_drying, the cycle fields, the
\* heater target and the timer all set) or raises with the controller fields,
\* the heater target, the idle monitor's state and the timers as they were.
C6_StartAllOrNothing ==
    [][response'.op = "start"
       => \/ /\ response'.exc = NoExc
             /\ is_drying'
             /\ start_time' = now
             /\ end_time' = now + duration'
             /\ heater_target' = target_temp'
             /\ timer_handler' # None
             /\ \E t \in timers' : Some(t.id) = timer_handler'
          \/ /\ response'.exc # NoExc
             /\ UNCHANGED <<CtrlFields, heater_target, idle_state, timers>>]_vars

\* C7: in every reachable state with is_drying true, duration and target_temp
\* are positive.
C7_PositiveParameters ==
    is_drying => (duration > 0 /\ target_temp > 0)

\* C8: once a tick of an active cycle has run at or after 300*k seconds of
\* elapsed time, with 300*k seconds before the deadline, exactly one progress
\* message was emitted for that boundary.
C8_ProgressEveryPeriod ==
    (is_drying /\ response.op = "tick")
    => \A k \in 1..(MaxTime \div ProgressPeriod) :
          (ProgressPeriod * k < duration /\ now - start_time >= ProgressPeriod * k)
          => Cardinality({e \in m118_log : e - start_time = ProgressPeriod * k}) = 1

\* The controller's and the collaborators' state in a world record.
StateOf(w) ==
    <<w.is_drying, w.target_temp, w.duration, w.start_time, w.end_time,
      w.timer_handler, w.original_target, w.heater, w.heater_target,
      w.idle_state, w.timers, w.m118_log>>

\* C9: a stop command given while idle returns normally and changes nothing;
\* in any state, a stop followed by a stop leaves the state a single stop
\* leaves.
C9_StopIdempotent ==
    [][response'.op = "stop"
       => /\ ~is_drying
             => /\ response'.exc = NoExc
                /\ UNCHANGED <<CtrlFields, heater, heater_target, idle_state,
                               timers, m118_log>>
          /\ ~is_drying'
          /\ StateOf(cmd_STOP_FILAMENT_DRYING(cmd_STOP_FILAMENT_DRYING(World)))
                = StateOf(cmd_STOP_FILAMENT_DRYING(World))]_vars

\* C9 witness: a stop command ran while idle, with the heater at a target
\* other than the one last captured.
C9_Witness ==
    /\ response.op = "stop"
    /\ Said(response, "no_cycle")
    /\ heater_target # original_target

\* C10: a stop leaves no timer registered, none is registered while idle, a
\* tick runs only while is_drying is true, and is_drying becomes true only in
\* a successful start; so a tick after a stop follows a successful start.
C10_NoTickAfterStop ==
    [][/\ response'.op = "stop" => timers' = {}
       /\ ~is_drying' => timers' = {}
       /\ response'.op = "tick" => is_drying
       /\ (is_drying' /\ ~is_drying)
          => (response'.op = "start" /\ response'.exc = NoExc)]_vars

\* C10 witness: a stop command ended a running cycle after its first tick was
\* due, and no timer is left.
C10_Witness ==
    /\ response.op = "stop"
    /\ Stopped(response)
    /\ now >= 2
    /\ timers = {}

\* C11: in every reachable state at most one timer is registered, and while a
\* cycle is active the registered timer is the one the controller holds the
\* handle of.
C11_AtMostOneTimer ==
    /\ Cardinality(timers) <= 1
    /\ is_drying => \A t \in timers : Some(t.id) = timer_handler

\* C11 witness: a start succeeded at a time later than the first possible
\* one, and one timer is registered, due a second later.
C11_Witness ==
    /\ response.op = "start"
    /\ response.exc = NoExc
    /\ now > 0
    /\ timers = {[id |-> timer_handler[1], waketime |-> now + TickInterval]}

\* C12: in every reachable state with is_drying false, target_temp, duration,
\* start_time and end_time are zero, and a status query answered while idle
\* returns exactly is_drying false and target_temp 0.
C12_IdleFieldsZero ==
    ~is_drying
    => /\ target_temp = 0 /\ duration = 0 /\ start_time = 0 /\ end_time = 0
       /\ response.op = "status"
          => response.ret = [is_drying |-> FALSE, target_temp |-> 0]

\* C12 witness: a status query answered while idle after a cycle that ran
\* long enough to report progress.
C12_Witness ==
    /\ ~is_drying
    /\ response.op = "status"
    /\ m118_log # {}

\* C13: a status query changes no controller field, not the heater target,
\* not the idle monitor and no timer, idle or drying.
C13_StatusPure ==
    [][response'.op = "status"
       => UNCHANGED <<CtrlFields, heater, heater_target, idle_state, timers,
                      m118_log>>]_vars

\* C13 witness: a status query answered during a cycle, some seconds in.
C13_Witness ==
    /\ response.op = "status"
    /\ is_drying
    /\ response.ret.elapsed > 1

\* The START commands that name the configured preset `name`, in any letter
\* case, with or without TEMP and DURATION beside it.
NamingPreset(name) ==
    {g \in GcmdParams :
        /\ g.PRESET # None
        /\ g.PRESET # Some("")
        /\ Lower(g.PRESET[1]) = Lower(name)}

\* The START command giving the preset's configured temperature and hours as
\* TEMP and DURATION.
ExplicitFor(name) ==
    [PRESET |-> None, TEMP |-> Some(PresetConfig[name].temp),
     DURATION |-> Some(PresetConfig[name].hours)]

\* C14: from any reachable state and at the same clock reading, a START
\* naming a configured preset (in any letter case, also with TEMP and DURATION
\* beside it) and a START with that preset's temperature and hours as TEMP and
\* DURATION leave the same state and the same outcome.
C14_PresetEquivalent ==
    \A name \in DOMAIN PresetConfig :
        \A g \in NamingPreset(name) :
            LET a == cmd_START_FILAMENT_DRYING(World, g)
                b == cmd_START_FILAMENT_DRYING(World, ExplicitFor(name))
            IN StateOf(a) = StateOf(b) /\ a.exc = b.exc

\* C14 witness: a START naming the preset in upper case, with a TEMP the
\* heater would refuse and another DURATION beside it, started a cycle with
\* the preset's values.
C14_Witness ==
    /\ response.op = "start"
    /\ response.exc = NoExc
    /\ response.arg.PRESET = Some("PLA")
    /\ response.arg.TEMP = Some(70)
    /\ response.arg.DURATION = Some(<<101, 1200>>)
    /\ is_drying
    /\ target_temp = PresetConfig["PLA"].temp
    /\ duration = 6

\* The START command names a preset (PRESET present and not empty).
NamesPreset(g) == g.PRESET # None /\ g.PRESET # Some("")

\* The START command names a preset that is not configured, in any letter case.
UnknownPreset(g) ==
    /\ NamesPreset(g)
    /\ \A p \in DOMAIN PresetConfig : Lower(p) # Lower(g.PRESET[1])

\* The START command names no preset and lacks TEMP or DURATION.
MissingParameters(g) ==
    /\ ~NamesPreset(g)
    /\ (g.TEMP = None \/ g.DURATION = None)

\* C15: a START naming a preset that is not configured raises the
\* unknown-preset error, a START with no preset and without TEMP or without
\* DURATION raises the missing-parameters error, and in both cases, idle or
\* drying, the controller fields, the heater target, the idle-timeout state,
\* the registered timers and the heater cache stay as they were.
C15_StartErrors ==
    [][response'.op = "start" =>
        /\ UnknownPreset(response'.arg) =>
              /\ response'.exc = "UnknownPreset"
              /\ UNCHANGED <<CtrlFields, heater, heater_target, idle_state,
                             timers, m118_log>>
        /\ MissingParameters(response'.arg) =>
              /\ response'.exc = "MissingParameters"
              /\ UNCHANGED <<CtrlFields, heater, heater_target, idle_state,
                             timers, m118_log>>]_vars

\* C15 witness: while a cycle runs, a START naming an unconfigured preset
\* with TEMP and DURATION beside it has raised the unknown-preset error.
C15_Witness ==
    /\ response.op = "start"
    /\ UnknownPreset(response.arg)
    /\ response.arg.TEMP # None
    /\ response.arg.DURATION # None
    /\ response.exc = "UnknownPreset"
    /\ is_drying
    /\ timers # {}

\* The temperature a START command asks for: the named preset's, else TEMP.
RequestedTemp(g) ==
    IF NamesPreset(g)
    THEN PresetConfig[CHOOSE p \in DOMAIN PresetConfig :
                          Lower(p) = Lower(g.PRESET[1])].temp
    ELSE g.TEMP[1]

\* The duration in seconds a START command asks for: the named preset's
\* hours, else DURATION, times 3600.
RequestedSeconds(g) ==
    IF NamesPreset(g)
    THEN HoursToSeconds(PresetConfig[CHOOSE p \in DOMAIN PresetConfig :
                                         Lower(p) = Lower(g.PRESET[1])].hours)
    ELSE HoursToSeconds(g.DURATION[1])

\* C16: a START that succeeds was given while idle and leaves is_drying true,
\* target_temp and duration as requested, start_time the clock reading,
\* end_time = start_time + duration, original_target the heater target from
\* before, the heater target at the requested temperature, and exactly one
\* registered timer, the one the handle names, due 1 second after the start.
C16_StartEffects ==
    [][(response'.op = "start" /\ response'.exc = NoExc) =>
        /\ ~is_drying
        /\ is_drying'
        /\ target_temp' = RequestedTemp(response'.arg)
        /\ duration' = RequestedSeconds(response'.arg)
        /\ start_time' = now
        /\ end_time' = start_time' + duration'
        /\ original_target' = heater_target
        /\ heater_target' = RequestedTemp(response'.arg)
        /\ timer_handler' # None
        /\ timers' = {[id |-> timer_handler'[1], waketime |-> now + 1]}]_vars

\* C16 witness: a cycle has just been started, past time 0, on a heater that
\* had another non-zero target, and its timer is due one second later.
C16_Witness ==
    /\ response.op = "start"
    /\ response.exc = NoExc
    /\ is_drying
    /\ now > 0
    /\ start_time = now
    /\ end_time = now + duration
    /\ duration > 0
    /\ original_target # 0
    /\ original_target # target_temp
    /\ heater_target = target_temp
    /\ timers = {[id |-> timer_handler[1], waketime |-> now + 1]}

\* C17: with every tick run at the time it was requested, a running cycle
\* eventually ends, and the tick that ends it runs at a time t with
\* end_time <= t < end_time + 1 and leaves the heater at the target it had
\* before the start.
C17_CompletesOnTime ==
    /\ [][(response'.op = "tick" /\ is_drying /\ ~is_drying') =>
            /\ end_time <= now
            /\ now < end_time + 1
            /\ heater_target' = original_target]_vars
    /\ (is_drying ~> ~is_drying)

\* C18: a tick raises nothing; run while idle it returns NEVER and changes
\* nothing; run while drying before end_time it returns the current time + 1
\* and leaves the controller fields, the timer handle among them, and the
\* heater target as they were; it returns NEVER exactly when it was run while
\* idle or at or after end_time.
C18_TickReturn ==
    [][response'.op = "tick" =>
        /\ response'.exc = NoExc
        /\ ~is_drying =>
              /\ response'.ret = NEVER
              /\ UNCHANGED <<CtrlFields, heater, heater_target, idle_state,
                             timers, m118_log>>
        /\ (is_drying /\ now < end_time) =>
              /\ response'.ret = now + 1
              /\ UNCHANGED <<CtrlFields, heater_target>>
        /\ (response'.ret = NEVER) <=> (~is_drying \/ now >= end_time)]_vars

\* C18 witness: the callback has been called while idle, after a cycle had
\* been started and stopped, and returned NEVER without a message.
C18_Witness ==
    /\ response.op = "tick"
    /\ response.exc = NoExc
    /\ response.ret = NEVER
    /\ response.msgs = <<>>
    /\ ~is_drying
    /\ heater # None
    /\ now > 0

\* C19: a tick reaches the progress computation only while drying, before
\* end_time and not before start_time, with duration > 0; it then raises
\* nothing and the percentage it reports, elapsed * 100 / duration, is at
\* least 0 and below 100.  A tick run while drying, before end_time, a whole
\* number of progress periods after the start does reach it.
C19_ProgressInRange ==
    [][response'.op = "tick" =>
        /\ (response'.m118 # None \/ response'.exc = "ZeroDivisionError") =>
              /\ is_drying
              /\ end_time - now > 0
              /\ now >= start_time
              /\ duration > 0
              /\ response'.exc = NoExc
              /\ response'.m118 = Some(<<(now - start_time) * 100, duration>>)
              /\ 0 <= (now - start_time) * 100
              /\ (now - start_time) * 100 < 100 * duration
        /\ (/\ is_drying
            /\ end_time - now > 0
            /\ (now - start_time) % ProgressPeriod = 0) =>
              response'.m118 # None]_vars

\* C19 witness: a tick 300 seconds into the 303-second cycle has reported
\* 30000/303 percent.
C19_Witness ==
    /\ response.op = "tick"
    /\ response.exc = NoExc
    /\ response.m118 = Some(<<30000, 303>>)
    /\ is_drying
    /\ duration = 303
    /\ now - start_time = 300

\* C20: in every reachable state a DRYER_STATUS command raises nothing and
\* changes nothing; given while idle it reports that no cycle is active, and
\* while a cycle is active the duration it divides by is not zero.
C20_DryerStatusSafe ==
    [][response'.op = "dryer_status" =>
        /\ response'.exc = NoExc
        /\ UNCHANGED <<CtrlFields, heater, heater_target, idle_state, timers,
                       m118_log>>
        /\ ~is_drying => Said(response', "idle")
        /\ is_drying => duration # 0]_vars
====
